---- MODULE Spec2Model ----
(***************************************************************************)
(* Universal Database Adapter Registry (database_adapter_registry.py):     *)
(* DatabaseConfig, the DatabaseAdapter interface with its six built-in     *)
(* adapters, and DatabaseAdapterRegistry.                                  *)
(*                                                                         *)
(* Strings are TLA+ strings; str.lower(), f-string formatting and the      *)
(* substring test ("x in s") are computed character by character.          *)
(***************************************************************************)
EXTENDS Integers, Sequences, FiniteSets, TLC

VARIABLES
    adapters,          \* DatabaseAdapterRegistry._adapters: insertion-ordered dict,
                       \* a sequence of entries [key, cls]
    use_llm_fallback,  \* DatabaseAdapterRegistry.use_llm_fallback
    config,            \* the caller's DatabaseConfig object (mutable, shared by reference)
    instances,         \* adapter objects built on config, in creation order: [cls]
    validated,         \* history: validate() has been called on config
    registered,        \* history: <<type, class>> of the last successful register
                       \* call for each engine type, the type in lowercase
    ret,               \* outcome of the last call: what it returned or raised
    threads            \* the call each concurrent caller is in, and where in it:
                       \* [pc, arg, cls, had, seen]

vars == <<adapters, use_llm_fallback, config, instances, validated, registered, ret,
          threads>>

(***************************************************************************)
(* Bounds                                                                  *)
(***************************************************************************)
\* adapter objects alive on one configuration object
MaxAdapters == 2

(***************************************************************************)
(* Strings                                                                 *)
(***************************************************************************)
UpperLetters == "ABCDEFGHIJKLMNOPQRSTUVWXYZ"
LowerLetters == "abcdefghijklmnopqrstuvwxyz"

\* the i-th character of s, as a string of length 1
CharAt(s, i) == SubSeq(s, i, i)

\* the lowercase letter of each uppercase letter
LowerOf ==
    [c \in {CharAt(UpperLetters, i) : i \in 1..Len(UpperLetters)} |->
        CharAt(LowerLetters, CHOOSE i \in 1..Len(UpperLetters) : CharAt(UpperLetters, i) = c)]

\* LowerChar gone wrong: capitals stay capitals
LowerCharAsGiven(c) == c

\* str.lower() on one character
LowerChar(c) == IF c \in DOMAIN LowerOf THEN LowerOf[c] ELSE c

RECURSIVE Lower(_)
\* str.lower()
Lower(s) == IF s = "" THEN "" ELSE LowerChar(CharAt(s, 1)) \o Lower(SubSeq(s, 2, Len(s)))

\* Python's "sub in s" on strings
Contains(s, sub) ==
    \E i \in 1..(Len(s) - Len(sub) + 1) : SubSeq(s, i, i + Len(sub) - 1) = sub

\* str(int) as an f-string renders it
Str(n) == ToString(n)

(***************************************************************************)
(* DatabaseConfig                                                          *)
(***************************************************************************)
\* DatabaseConfig gone wrong: __post_init__ is missing
DatabaseConfigAsGiven(db_type, db_name, host, port, username, password, ssl_enabled, pool_size, image, timeout) ==
    [db_type     |-> db_type,
     db_name     |-> db_name,
     host        |-> host,
     port        |-> port,
     username    |-> username,
     password    |-> password,
     ssl_enabled |-> ssl_enabled,
     pool_size   |-> pool_size,
     image       |-> image,
     timeout     |-> timeout]

\* DatabaseConfig(...) : the dataclass __init__ followed by __post_init__
DatabaseConfig(db_type, db_name, host, port, username, password, ssl_enabled, pool_size, image, timeout) ==
    [db_type     |-> Lower(db_type),
     db_name     |-> db_name,
     host        |-> host,
     port        |-> port,
     username    |-> username,
     password    |-> password,
     ssl_enabled |-> ssl_enabled,
     pool_size   |-> pool_size,
     image       |-> image,
     timeout     |-> timeout]

\* PortErrors gone wrong: the upper limit itself is rejected
PortErrorsOffByOne(c) ==
    IF ~(0 <= c.port /\ c.port < 65535)
    THEN <<"Invalid port: " \o Str(c.port)>> ELSE <<>>

\* "# Validate port"
PortErrors(c) ==
    IF ~(0 <= c.port /\ c.port <= 65535)
    THEN <<"Invalid port: " \o Str(c.port)>> ELSE <<>>

\* "# Validate pool size"
PoolSizeErrors(c) ==
    IF ~(1 <= c.pool_size /\ c.pool_size <= 1000)
    THEN <<"Invalid pool size: " \o Str(c.pool_size)>> ELSE <<>>

\* "# Validate timeout"
TimeoutErrors(c) ==
    IF ~(1 <= c.timeout /\ c.timeout <= 300)
    THEN <<"Invalid timeout: " \o Str(c.timeout)>> ELSE <<>>

\* "# Validate required fields": "not s" is true of the empty string
RequiredFieldErrors(c) ==
    (IF c.db_type = "" THEN <<"db_type is required">> ELSE <<>>)
    \o (IF c.db_name = "" THEN <<"db_name is required">> ELSE <<>>)
    \o (IF c.host = "" THEN <<"host is required">> ELSE <<>>)
    \o (IF c.username = "" THEN <<"username is required">> ELSE <<>>)

\* "# Image required for Docker deployment"
ImageErrors(c) ==
    IF c.image = "" THEN <<"image must be specified for Docker deployment">> ELSE <<>>

\* the errors list of validate(): the appends in source order
ValidateErrors(c) ==
    PortErrors(c) \o PoolSizeErrors(c) \o TimeoutErrors(c) \o RequiredFieldErrors(c)
        \o ImageErrors(c)

\* DatabaseConfig.validate(): (is_valid, error_list)
Validate(c) == [ok |-> Len(ValidateErrors(c)) = 0, errors |-> ValidateErrors(c)]

(***************************************************************************)
(* Adapter classes                                                         *)
(***************************************************************************)
DatabaseAdapter      == "DatabaseAdapter"        \* the abstract base class
PostgreSQLAdapter    == "PostgreSQLAdapter"
MongoDBAdapter       == "MongoDBAdapter"
MySQLAdapter         == "MySQLAdapter"
ClickHouseAdapter    == "ClickHouseAdapter"
RedisAdapter         == "RedisAdapter"
ElasticsearchAdapter == "ElasticsearchAdapter"
NotAnAdapter         == "NotAnAdapter"           \* a class outside the hierarchy

BuiltinClasses == {PostgreSQLAdapter, MongoDBAdapter, MySQLAdapter,
                   ClickHouseAdapter, RedisAdapter, ElasticsearchAdapter}

\* IsSubclassOfDatabaseAdapter gone wrong: the check is missing
IsAnyClass(cls) == TRUE

\* issubclass(cls, DatabaseAdapter): a class is a subclass of itself
IsSubclassOfDatabaseAdapter(cls) == cls \in BuiltinClasses \cup {DatabaseAdapter}

\* a class that still has @abstractmethod members cannot be instantiated;
\* each built-in adapter overrides all five
IsAbstract(cls) == cls = DatabaseAdapter

\* the five @abstractmethod operations a class implements
ImplementedMethods(cls) ==
    IF cls \in BuiltinClasses
    THEN {"get_connection_string", "get_docker_config", "supports_vector_search",
          "get_vector_create_index_sql", "get_health_check_command"}
    ELSE {}

\* WithDefaults gone wrong: the port is assigned whatever its value
WithDefaultsAlways(c, port, image) ==
    [c EXCEPT !.port  = port,
              !.image = IF c.image = "" THEN image ELSE c.image]

\* the "if config.port == 0 / if not config.image" prologue shared by the
\* six constructors
WithDefaults(c, port, image) ==
    [c EXCEPT !.port  = IF c.port = 0 THEN port ELSE c.port,
              !.image = IF c.image = "" THEN image ELSE c.image]

\* <Class>.__init__(config): the configuration object after the constructor ran
\* PostgreSQLAdapterInit gone wrong: the engine's own port and image are
\* assigned whatever the configuration holds
PostgreSQLAdapterInitOwnDefaults(c) ==
    [c EXCEPT !.port = 5432, !.image = "pgvector/pgvector:pg16"]
PostgreSQLAdapterInit(c)    == WithDefaults(c, 5432, "pgvector/pgvector:pg16")
MongoDBAdapterInit(c)       == WithDefaults(c, 27017, "mongo:7.0")
MySQLAdapterInit(c)         == WithDefaults(c, 3306, "mysql:8.0")
\* ClickHouseAdapterInit gone wrong: the image is assigned whatever it was
ClickHouseAdapterInitImageAlways(c) ==
    [WithDefaults(c, 8123, "") EXCEPT !.image = "clickhouse/clickhouse-server:latest"]
ClickHouseAdapterInit(c)    == WithDefaults(c, 8123, "clickhouse/clickhouse-server:latest")
\* RedisAdapterInit gone wrong: another default port
RedisAdapterInitPort6380(c) == WithDefaults(c, 6380, "redis:7.2-alpine")
RedisAdapterInit(c)         == WithDefaults(c, 6379, "redis:7.2-alpine")
\* ElasticsearchAdapterInit gone wrong: another default image
ElasticsearchAdapterInitLatest(c) ==
    WithDefaults(c, 9200, "docker.elastic.co/elasticsearch/elasticsearch:latest")
ElasticsearchAdapterInit(c) ==
    WithDefaults(c, 9200, "docker.elastic.co/elasticsearch/elasticsearch:8.0.0")

\* cls(config) for a concrete class
AdapterInit(cls, c) ==
    CASE cls = PostgreSQLAdapter    -> PostgreSQLAdapterInit(c)
      [] cls = MongoDBAdapter       -> MongoDBAdapterInit(c)
      [] cls = MySQLAdapter         -> MySQLAdapterInit(c)
      [] cls = ClickHouseAdapter    -> ClickHouseAdapterInit(c)
      [] cls = RedisAdapter         -> RedisAdapterInit(c)
      [] cls = ElasticsearchAdapter -> ElasticsearchAdapterInit(c)
      [] OTHER                      -> c    \* DatabaseAdapter.__init__ only

\* get_connection_string()
PostgreSQLConnectionString(c) ==
    "postgresql://" \o c.username \o ":" \o c.password \o "@" \o c.host \o ":"
        \o Str(c.port) \o "/" \o c.db_name \o "?sslmode="
        \o (IF c.ssl_enabled THEN "require" ELSE "disable")
MongoDBConnectionString(c) ==
    "mongodb://" \o c.username \o ":" \o c.password \o "@" \o c.host \o ":"
        \o Str(c.port) \o "/" \o c.db_name
MySQLConnectionString(c) ==
    "mysql://" \o c.username \o ":" \o c.password \o "@" \o c.host \o ":"
        \o Str(c.port) \o "/" \o c.db_name \o "?useSSL="
        \o (IF c.ssl_enabled THEN "true" ELSE "false")
ClickHouseConnectionString(c) ==
    "clickhouse://" \o c.username \o ":" \o c.password \o "@" \o c.host \o ":"
        \o Str(c.port) \o "/" \o c.db_name
\* RedisConnectionString gone wrong: the password is starred out
RedisConnectionStringMasked(c) ==
    "redis://:" \o "****" \o "@" \o c.host \o ":" \o Str(c.port) \o "/0"

RedisConnectionString(c) ==
    "redis://:" \o c.password \o "@" \o c.host \o ":" \o Str(c.port) \o "/0"
ElasticsearchConnectionString(c) ==
    (IF c.ssl_enabled THEN "https" ELSE "http") \o "://" \o c.username \o ":"
        \o c.password \o "@" \o c.host \o ":" \o Str(c.port)

ConnectionString(cls, c) ==
    CASE cls = PostgreSQLAdapter    -> PostgreSQLConnectionString(c)
      [] cls = MongoDBAdapter       -> MongoDBConnectionString(c)
      [] cls = MySQLAdapter         -> MySQLConnectionString(c)
      [] cls = ClickHouseAdapter    -> ClickHouseConnectionString(c)
      [] cls = RedisAdapter         -> RedisConnectionString(c)
      [] cls = ElasticsearchAdapter -> ElasticsearchConnectionString(c)

\* the "healthcheck" entry of get_docker_config(); the timing fields are the
\* same literals in every adapter except Elasticsearch's start_period
HealthCheck(test, start_period) ==
    [test |-> test, interval |-> "30s", timeout |-> "10s", retries |-> 3,
     start_period |-> start_period]

\* get_docker_config(); environment is the dict as a set of <<key, value>> items
PostgreSQLDockerConfig(c) ==
    [image       |-> c.image,
     ports       |-> <<Str(c.port) \o ":5432">>,
     environment |-> {<<"POSTGRES_DB", c.db_name>>, <<"POSTGRES_USER", c.username>>,
                      <<"POSTGRES_PASSWORD", c.password>>},
     volumes     |-> <<"postgres_data:/var/lib/postgresql/data">>,
     healthcheck |-> HealthCheck(<<"CMD-SHELL",
                        "pg_isready -U " \o c.username \o " -d " \o c.db_name>>, "10s")]
MongoDBDockerConfig(c) ==
    [image       |-> c.image,
     ports       |-> <<Str(c.port) \o ":27017">>,
     environment |-> {<<"MONGO_INITDB_DATABASE", c.db_name>>,
                      <<"MONGO_INITDB_ROOT_USERNAME", c.username>>,
                      <<"MONGO_INITDB_ROOT_PASSWORD", c.password>>},
     volumes     |-> <<"mongodb_data:/data/db">>,
     healthcheck |-> HealthCheck(<<"CMD", "mongosh", "--eval",
                                   "db.adminCommand('ping')">>, "10s")]
MySQLDockerConfig(c) ==
    [image       |-> c.image,
     ports       |-> <<Str(c.port) \o ":3306">>,
     environment |-> {<<"MYSQL_DATABASE", c.db_name>>, <<"MYSQL_USER", c.username>>,
                      <<"MYSQL_PASSWORD", c.password>>,
                      <<"MYSQL_ROOT_PASSWORD", c.password>>},
     volumes     |-> <<"mysql_data:/var/lib/mysql">>,
     healthcheck |-> HealthCheck(<<"CMD", "mysqladmin", "ping", "-u", c.username>>, "10s")]
ClickHouseDockerConfig(c) ==
    [image       |-> c.image,
     ports       |-> <<"8123:8123", "9000:9000">>,
     environment |-> {<<"CLICKHOUSE_DB", c.db_name>>, <<"CLICKHOUSE_USER", c.username>>,
                      <<"CLICKHOUSE_PASSWORD", c.password>>},
     volumes     |-> <<"clickhouse_data:/var/lib/clickhouse">>,
     healthcheck |-> HealthCheck(<<"CMD", "curl", "-f", "http://localhost:8123/ping">>,
                                 "10s")]
RedisDockerConfig(c) ==
    [image       |-> c.image,
     ports       |-> <<Str(c.port) \o ":6379">>,
     environment |-> {},
     volumes     |-> <<"redis_data:/data">>,
     command     |-> "redis-server --requirepass " \o c.password,
     healthcheck |-> HealthCheck(<<"CMD", "redis-cli", "ping">>, "10s")]
ElasticsearchDockerConfig(c) ==
    [image       |-> c.image,
     ports       |-> <<Str(c.port) \o ":9200">>,
     environment |-> {<<"discovery.type", "single-node">>,
                      <<"ELASTIC_PASSWORD", c.password>>,
                      <<"xpack.security.enabled", "true">>},
     volumes     |-> <<"elasticsearch_data:/usr/share/elasticsearch/data">>,
     healthcheck |-> HealthCheck(<<"CMD", "curl", "-f",
                                   "http://localhost:9200/_cluster/health">>, "30s")]

DockerConfig(cls, c) ==
    CASE cls = PostgreSQLAdapter    -> PostgreSQLDockerConfig(c)
      [] cls = MongoDBAdapter       -> MongoDBDockerConfig(c)
      [] cls = MySQLAdapter         -> MySQLDockerConfig(c)
      [] cls = ClickHouseAdapter    -> ClickHouseDockerConfig(c)
      [] cls = RedisAdapter         -> RedisDockerConfig(c)
      [] cls = ElasticsearchAdapter -> ElasticsearchDockerConfig(c)

\* get_health_check_command()
PostgreSQLHealthCheckCommand(c)    == "pg_isready -U " \o c.username \o " -d " \o c.db_name
MongoDBHealthCheckCommand(c)       == "mongosh --eval 'db.adminCommand(\"ping\")'"
MySQLHealthCheckCommand(c)         == "mysqladmin ping -u " \o c.username
ClickHouseHealthCheckCommand(c)    == "curl -f http://localhost:8123/ping"
RedisHealthCheckCommand(c)         == "redis-cli ping"
ElasticsearchHealthCheckCommand(c) == "curl -f http://localhost:9200/_cluster/health"

HealthCheckCommand(cls, c) ==
    CASE cls = PostgreSQLAdapter    -> PostgreSQLHealthCheckCommand(c)
      [] cls = MongoDBAdapter       -> MongoDBHealthCheckCommand(c)
      [] cls = MySQLAdapter         -> MySQLHealthCheckCommand(c)
      [] cls = ClickHouseAdapter    -> ClickHouseHealthCheckCommand(c)
      [] cls = RedisAdapter         -> RedisHealthCheckCommand(c)
      [] cls = ElasticsearchAdapter -> ElasticsearchHealthCheckCommand(c)

\* get_vector_create_index_sql(): the f-string, line breaks and indentation kept
\* PostgreSQLAdapter.get_vector_create_index_sql()
\* PostgreSQLVectorCreateIndexSql gone wrong: the CREATE INDEX statement is
\* missing
PostgreSQLVectorCreateIndexSqlNoIndex(table_name, column_name, dimension) ==
    "\n        CREATE TABLE IF NOT EXISTS "
        \o table_name
        \o " (\n            id SERIAL PRIMARY KEY,\n            content TEXT NOT NULL,\n            "
        \o column_name
        \o " vector("
        \o Str(dimension)
        \o ") NOT NULL,\n            created_at TIMESTAMP DEFAULT CURRENT_TIMESTAMP\n        );\n        "

PostgreSQLVectorCreateIndexSql(table_name, column_name, dimension) ==
    "\n        CREATE TABLE IF NOT EXISTS "
        \o table_name
        \o " (\n            id SERIAL PRIMARY KEY,\n            content TEXT NOT NULL,\n            "
        \o column_name
        \o " vector("
        \o Str(dimension)
        \o ") NOT NULL,\n            created_at TIMESTAMP DEFAULT CURRENT_TIMESTAMP\n        );\n        CREATE INDEX ON "
        \o table_name
        \o " USING ivfflat ("
        \o column_name
        \o " vector_cosine_ops) WITH (lists = 100);\n        "

\* MongoDBAdapter.get_vector_create_index_sql()
MongoDBVectorCreateIndexSql(table_name, column_name, dimension) ==
    "\n        db."
        \o table_name
        \o ".createIndex({\n            \""
        \o column_name
        \o "\": \"cosmosSearch\",\n            \"cosmosSearchConfig\": {\n                \"kind\": \"vector-ivf\",\n                \"dimension\": "
        \o Str(dimension)
        \o ",\n                \"similarity\": \"COS\"\n            }\n        })\n        "

\* MySQLAdapter.get_vector_create_index_sql()
MySQLVectorCreateIndexSql(table_name, column_name, dimension) ==
    "\n        CREATE TABLE IF NOT EXISTS "
        \o table_name
        \o " (\n            id INT AUTO_INCREMENT PRIMARY KEY,\n            content LONGTEXT NOT NULL,\n            "
        \o column_name
        \o " JSON NOT NULL,\n            created_at TIMESTAMP DEFAULT CURRENT_TIMESTAMP,\n            VECTOR INDEX vi ("
        \o column_name
        \o ")\n        );\n        "

\* ClickHouseAdapter.get_vector_create_index_sql()
ClickHouseVectorCreateIndexSql(table_name, column_name, dimension) ==
    "\n        CREATE TABLE IF NOT EXISTS "
        \o table_name
        \o " (\n            id UInt32,\n            content String,\n            "
        \o column_name
        \o " Array(Float32),\n            created_at DateTime DEFAULT now()\n        ) ENGINE = MergeTree() ORDER BY id;\n        "

\* RedisAdapter.get_vector_create_index_sql()
RedisVectorCreateIndexSql(table_name, column_name, dimension) ==
    "\n        FT.CREATE "
        \o table_name
        \o " ON HASH SCHEMA content TEXT "
        \o column_name
        \o " VECTOR FLAT 6 DIM "
        \o Str(dimension)
        \o " DISTANCE_METRIC COSINE\n        "

\* ElasticsearchAdapter.get_vector_create_index_sql()
ElasticsearchVectorCreateIndexSql(table_name, column_name, dimension) ==
    "\n        PUT /"
        \o table_name
        \o "\n        {\n            \"mappings\": {\n                \"properties\": {\n                    \"content\": {\"type\": \"text\"},\n                    \""
        \o column_name
        \o "\": {\n                        \"type\": \"dense_vector\",\n                        \"dims\": "
        \o Str(dimension)
        \o ",\n                        \"index\": true,\n                        \"similarity\": \"cosine\"\n                    }\n                }\n            }\n        }\n        "

VectorCreateIndexSql(cls, table_name, column_name, dimension) ==
    CASE cls = PostgreSQLAdapter    -> PostgreSQLVectorCreateIndexSql(table_name, column_name, dimension)
      [] cls = MongoDBAdapter       -> MongoDBVectorCreateIndexSql(table_name, column_name, dimension)
      [] cls = MySQLAdapter         -> MySQLVectorCreateIndexSql(table_name, column_name, dimension)
      [] cls = ClickHouseAdapter    -> ClickHouseVectorCreateIndexSql(table_name, column_name, dimension)
      [] cls = RedisAdapter         -> RedisVectorCreateIndexSql(table_name, column_name, dimension)
      [] cls = ElasticsearchAdapter -> ElasticsearchVectorCreateIndexSql(table_name, column_name, dimension)

\* supports_vector_search(): "return True" in each of the six adapters
SupportsVectorSearch(cls) == cls \in BuiltinClasses

(***************************************************************************)
(* DatabaseAdapterRegistry: the _adapters dict                             *)
(***************************************************************************)
\* the dict literal of DatabaseAdapterRegistry.__init__
BuiltinAdapters ==
    << [key |-> "postgresql",    cls |-> PostgreSQLAdapter],
       [key |-> "mongodb",       cls |-> MongoDBAdapter],
       [key |-> "mysql",         cls |-> MySQLAdapter],
       [key |-> "clickhouse",    cls |-> ClickHouseAdapter],
       [key |-> "redis",         cls |-> RedisAdapter],
       [key |-> "elasticsearch", cls |-> ElasticsearchAdapter] >>

\* list(d.keys())
Keys(d) == [i \in 1..Len(d) |-> d[i].key]

\* k in d
HasKey(d, k) == \E i \in 1..Len(d) : d[i].key = k

\* d[k]
Lookup(d, k) == d[CHOOSE i \in 1..Len(d) : d[i].key = k].cls

\* SetItem gone wrong: the assignment replaces the whole dict
SetItemOnly(d, k, cls) == << [key |-> k, cls |-> cls] >>

\* SetItem gone wrong: an assigned key always moves to the end
SetItemMoveToEnd(d, k, cls) ==
    Append(SelectSeq(d, LAMBDA e : e.key # k), [key |-> k, cls |-> cls])

\* d[k] = cls : an existing key keeps its position, a new key goes last
SetItem(d, k, cls) ==
    IF HasKey(d, k)
    THEN [i \in 1..Len(d) |-> IF d[i].key = k THEN [key |-> k, cls |-> cls] ELSE d[i]]
    ELSE Append(d, [key |-> k, cls |-> cls])

\* repr of a class object in an f-string
ClassRepr(cls) == "<class '" \o cls \o "'>"

\* NormalizeType gone wrong: the type is looked up as given
NormalizeTypeAsGiven(db_type) == db_type

\* "db_type = db_type.lower()" of get_adapter
NormalizeType(db_type) == Lower(db_type)

\* the TypeError of register
NotAnAdapterMessage(adapter_class) ==
    ClassRepr(adapter_class) \o " must inherit from DatabaseAdapter"

\* NotSupportedMessage gone wrong: the type is left out
NotSupportedMessageNoType(db_type) == "Database type not supported"

\* the ValueError at the end of get_adapter
NotSupportedMessage(db_type) == "Database type '" \o db_type \o "' not supported"

\* CannotCreateMessage gone wrong: the caught exception is left out
CannotCreateMessageNoReason(db_type, e) == "Cannot create adapter for " \o db_type

\* the ValueError of _create_adapter_with_llm, e the exception it caught
CannotCreateMessage(db_type, e) == "Cannot create adapter for " \o db_type \o ": " \o e

\* NotFoundMessage gone wrong: the type is left out
NotFoundMessageNoType(db_type) == "Adapter not found"

\* the ValueError of get_adapter_info
NotFoundMessage(db_type) == "Adapter '" \o db_type \o "' not found"

\* str(e) of what _create_adapter_with_llm's try block raises: importing
\* config_engine fails on a missing dependency, or the module has no name
\* ConfigEngine, or the stub's own NotImplementedError is reached
HookFailures(db_type) ==
    {"No module named 'yaml'",
     "cannot import name 'ConfigEngine' from 'config_engine'",
     "LLM fallback for " \o db_type \o " not implemented"}

(***************************************************************************)
(* Inputs                                                                  *)
(***************************************************************************)
\* the keys of the six built-in engines, as passed to get_adapter
BuiltinNames == {"postgresql", "mongodb", "mysql", "clickhouse", "redis", "elasticsearch"}

\* engine-type strings passed to get_adapter and get_adapter_info of a registry
\* that is being re-registered
RegistryTypeNames == {"mysql", "MySql", "oracle", "custom", "Custom"}

\* engine-type strings passed to register
RegisterNames == {"custom", "Custom", "MYSQL"}

\* classes passed to register
RegisterClasses == {PostgreSQLAdapter, MySQLAdapter, DatabaseAdapter, NotAnAdapter}

\* engine-type strings configurations are constructed with
ConfigDbTypes == {"PostgreSQL", "postgresql", "POSTGRESQL", "MySQL", "mysql"}

\* the lowercase spelling of each engine-type string above, written out
CanonicalName ==
    [t \in BuiltinNames \cup RegistryTypeNames \cup RegisterNames \cup ConfigDbTypes |->
        CASE t \in {"mysql", "MySql", "MYSQL", "MySQL"}          -> "mysql"
          [] t \in {"custom", "Custom"}                         -> "custom"
          [] t \in {"PostgreSQL", "postgresql", "POSTGRESQL"}   -> "postgresql"
          [] OTHER                                              -> t]

\* the concurrent callers of one registry, and what they call it with
Callers == {"c1", "c2"}
ConcurrentRegisterNames == {"custom", "Custom"}
ConcurrentRegisterClasses == {PostgreSQLAdapter, MySQLAdapter}
ConcurrentLookupNames == {"custom"}

\* the <<key, class>> pairs __init__ writes
BuiltinPairs == {<<BuiltinAdapters[i].key, BuiltinAdapters[i].cls>> : i \in 1..Len(BuiltinAdapters)}

\* arguments of get_vector_create_index_sql
VectorTables     == {"docs"}
VectorColumns    == {"embedding"}
VectorDimensions == {768, 1536}

\* port and image of the configurations handed to get_adapter
CorePorts  == {0, 5433, 70000}
CoreImages == {"", "postgres:15"}

\* field values of the configurations validate() is applied to
ValidatePorts    == {-1, 0, 65535, 65536, 70000}
ValidatePoolSizes == {0, 1, 1000, 1001, 2000}
ValidateTimeouts == {0, 1, 300, 301, 500}
ValidateStrings  == {"", "x"}

\* no value: Python's None
None == "None"

\* the outcome of a call
Outcome(op, db_type, cls, status, msg, value, before) ==
    [op |-> op, db_type |-> db_type, cls |-> cls, status |-> status, msg |-> msg,
     value |-> value, before |-> before]

(***************************************************************************)
(* Operations                                                              *)
(***************************************************************************)
\* the caller builds another configuration object with the arguments args;
\* the previous object and the adapters built on it are dropped
NewConfig(args) ==
    /\ config' = DatabaseConfig(args.db_type, args.db_name, args.host, args.port,
                                args.username, args.password, args.ssl_enabled,
                                args.pool_size, args.image, args.timeout)
    /\ instances' = <<>>
    /\ validated' = FALSE
    /\ ret' = Outcome("DatabaseConfig", args.db_type, None, "ok", "", args, config')
    /\ UNCHANGED <<adapters, use_llm_fallback, threads, registered>>

\* validate gone wrong: it repairs an out-of-range pool size as it reports it
validate_repairing ==
    /\ validated' = TRUE
    /\ config' = IF PoolSizeErrors(config) # <<>> THEN [config EXCEPT !.pool_size = 10]
                                                 ELSE config
    /\ ret' = Outcome("validate", "", None, "ok", "", Validate(config), config)
    /\ UNCHANGED <<adapters, use_llm_fallback, threads, instances, registered>>

\* config.validate()
validate ==
    /\ validated' = TRUE
    /\ ret' = Outcome("validate", "", None, "ok", "", Validate(config), config)
    /\ UNCHANGED <<adapters, use_llm_fallback, threads, config, instances, registered>>

\* registry.register(db_type, adapter_class)
register(db_type, adapter_class) ==
    /\ IF ~IsSubclassOfDatabaseAdapter(adapter_class)
       THEN /\ ret' = Outcome("register", db_type, adapter_class, "TypeError",
                        NotAnAdapterMessage(adapter_class), None, config)
            /\ UNCHANGED <<adapters, registered>>
       ELSE /\ adapters' = SetItem(adapters, Lower(db_type), adapter_class)
            /\ registered' = {r \in registered : r[1] # CanonicalName[db_type]}
                               \cup {<<CanonicalName[db_type], adapter_class>>}
            /\ ret' = Outcome("register", db_type, adapter_class, "ok", "", None, config)
    /\ UNCHANGED <<use_llm_fallback, threads, config, instances, validated>>

\* registry._create_adapter_with_llm(db_type, config): always raises
create_adapter_with_llm(arg, db_type) ==
    /\ \E e \in HookFailures(db_type) :
         ret' = Outcome("get_adapter", arg, None, "ValueError",
                        CannotCreateMessage(db_type, e), None, config)
    /\ UNCHANGED <<adapters, use_llm_fallback, threads, config, instances, validated, registered>>

\* get_adapter gone wrong: an adapter of the class built earlier is handed
\* out again
get_adapter_cached(arg) ==
    LET cls == Lookup(adapters, NormalizeType(arg)) IN
    /\ HasKey(adapters, NormalizeType(arg))
    /\ ~IsAbstract(cls)
    /\ IF \E i \in 1..Len(instances) : instances[i].cls = cls
       THEN /\ ret' = Outcome("get_adapter", arg, cls, "ok", "",
                              CHOOSE i \in 1..Len(instances) : instances[i].cls = cls,
                              config)
            /\ UNCHANGED <<config, instances>>
       ELSE /\ Len(instances) < MaxAdapters
            /\ config' = AdapterInit(cls, config)
            /\ instances' = Append(instances, [cls |-> cls])
            /\ ret' = Outcome("get_adapter", arg, cls, "ok", "", Len(instances) + 1,
                              config)
    /\ UNCHANGED <<adapters, use_llm_fallback, threads, validated, registered>>

\* get_adapter gone wrong: it validates the configuration and refuses one
\* with errors
get_adapter_validating(arg) ==
    LET db_type == NormalizeType(arg) IN
    IF ~Validate(config).ok
    THEN /\ validated' = TRUE
         /\ ret' = Outcome("get_adapter", arg, None, "ValueError", "Invalid configuration",
                           None, config)
         /\ UNCHANGED <<adapters, use_llm_fallback, threads, config, instances, registered>>
    ELSE /\ HasKey(adapters, db_type)
         /\ ~IsAbstract(Lookup(adapters, db_type))
         /\ Len(instances) < MaxAdapters
         /\ validated' = TRUE
         /\ config' = AdapterInit(Lookup(adapters, db_type), config)
         /\ instances' = Append(instances, [cls |-> Lookup(adapters, db_type)])
         /\ ret' = Outcome("get_adapter", arg, Lookup(adapters, db_type), "ok", "",
                           Len(instances) + 1, config)
         /\ UNCHANGED <<adapters, use_llm_fallback, threads, registered>>

\* registry.get_adapter(arg, config)
get_adapter(arg) ==
    LET db_type == NormalizeType(arg) IN
    IF HasKey(adapters, db_type)
    THEN LET cls == Lookup(adapters, db_type) IN
         IF IsAbstract(cls)
         THEN /\ ret' = Outcome("get_adapter", arg, cls, "TypeError",
                          "Can't instantiate abstract class " \o cls, None, config)
              /\ UNCHANGED <<adapters, use_llm_fallback, threads, config, instances, validated, registered>>
         ELSE /\ Len(instances) < MaxAdapters
              /\ config' = AdapterInit(cls, config)
              /\ instances' = Append(instances, [cls |-> cls])
              /\ ret' = Outcome("get_adapter", arg, cls, "ok", "", Len(instances) + 1,
                                config)
              /\ UNCHANGED <<adapters, use_llm_fallback, threads, validated, registered>>
    ELSE IF use_llm_fallback
    THEN create_adapter_with_llm(arg, db_type)
    ELSE /\ ret' = Outcome("get_adapter", arg, None, "ValueError",
                     NotSupportedMessage(db_type), None, config)
         /\ UNCHANGED <<adapters, use_llm_fallback, threads, config, instances, validated, registered>>

\* registry.list_available_adapters()
list_available_adapters ==
    /\ ret' = Outcome("list_available_adapters", "", None, "ok", "", Keys(adapters), config)
    /\ UNCHANGED <<adapters, use_llm_fallback, threads, config, instances, validated, registered>>

\* the caller appends k to the list that list_available_adapters returned;
\* list(...) built that list as an object of its own
append_to_listed(k) ==
    /\ ret.op = "list_available_adapters"
    /\ ret' = Outcome("list.append", k, None, "ok", "", Append(ret.value, k), config)
    /\ UNCHANGED <<adapters, use_llm_fallback, threads, config, instances, validated, registered>>

\* registry.get_adapter_info(arg); value is (db_type, class_name)
get_adapter_info(arg) ==
    LET db_type == Lower(arg) IN
    /\ IF ~HasKey(adapters, db_type)
       THEN ret' = Outcome("get_adapter_info", arg, None, "ValueError",
                           NotFoundMessage(db_type), None, config)
       ELSE ret' = Outcome("get_adapter_info", arg, Lookup(adapters, db_type), "ok", "",
                           [db_type |-> db_type, class_name |-> Lookup(adapters, db_type)],
                           config)
    /\ UNCHANGED <<adapters, use_llm_fallback, threads, config, instances, validated, registered>>

\* AdapterCall gone wrong: the method resets the pool size as it answers
AdapterCallResetting(i, op, value) ==
    /\ ret' = Outcome(op, "", instances[i].cls, "ok", "", value, config)
    /\ config' = [config EXCEPT !.pool_size = 1]
    /\ UNCHANGED <<adapters, use_llm_fallback, threads, instances, validated, registered>>

\* a method of the i-th adapter object; the object reads the shared config
AdapterCall(i, op, value) ==
    /\ ret' = Outcome(op, "", instances[i].cls, "ok", "", value, config)
    /\ UNCHANGED <<adapters, use_llm_fallback, threads, config, instances, validated, registered>>

get_connection_string(i) ==
    AdapterCall(i, "get_connection_string", ConnectionString(instances[i].cls, config))

get_docker_config(i) ==
    AdapterCall(i, "get_docker_config", DockerConfig(instances[i].cls, config))

supports_vector_search(i) ==
    AdapterCall(i, "supports_vector_search", SupportsVectorSearch(instances[i].cls))

get_health_check_command(i) ==
    AdapterCall(i, "get_health_check_command", HealthCheckCommand(instances[i].cls, config))

\* value keeps the arguments beside the returned text
get_vector_create_index_sql(i, table_name, column_name, dimension) ==
    AdapterCall(i, "get_vector_create_index_sql",
                [table_name |-> table_name, column_name |-> column_name,
                 dimension |-> dimension,
                 sql |-> VectorCreateIndexSql(instances[i].cls, table_name, column_name,
                                              dimension)])

(***************************************************************************)
(* DynamicStackGenerator (stack_generator.py): the primary database        *)
(* service of generate_stack                                               *)
(***************************************************************************)
\* _get_docker_image_for_database(database_type)
GetDockerImageForDatabase(database_type) ==
    LET t == Lower(database_type) IN
    CASE t = "postgresql"    -> "pgvector/pgvector:pg16"
      [] t = "mongodb"       -> "mongo:7.0"
      [] t = "mysql"         -> "mysql:8.0"
      [] t = "clickhouse"    -> "clickhouse/clickhouse-server:latest"
      [] t = "redis"         -> "redis:7.2-alpine"
      [] t = "elasticsearch" -> "docker.elastic.co/elasticsearch/elasticsearch:8.0.0"
      [] OTHER               -> "postgres:15"

\* the "health_check" entry of a hardcoded config
FallbackHealthCheck(test) == [test |-> test, interval |-> "10s", timeout |-> "5s", retries |-> 5]

\* db_configs.get(database_type, db_configs["postgresql"]): the hardcoded
\* configs at the end of _select_database_config
FallbackDbConfig(database_type) ==
    CASE database_type = "mongodb" ->
           [image       |-> "mongo:7.0",
            port        |-> 27017,
            environment |-> {<<"MONGO_INITDB_ROOT_USERNAME", "admin">>,
                             <<"MONGO_INITDB_ROOT_PASSWORD", "mongopass123">>,
                             <<"MONGO_INITDB_DATABASE", "appdb">>},
            health_check |-> FallbackHealthCheck(<<"CMD", "mongosh", "--eval",
                                                   "db.adminCommand('ping')">>)]
      [] database_type = "mysql" ->
           [image       |-> "mysql:8.0",
            port        |-> 3306,
            environment |-> {<<"MYSQL_ROOT_PASSWORD", "rootpass123">>,
                             <<"MYSQL_DATABASE", "appdb">>, <<"MYSQL_USER", "dbuser">>,
                             <<"MYSQL_PASSWORD", "dbpass123">>},
            health_check |-> FallbackHealthCheck(<<"CMD", "mysqladmin", "ping", "-h",
                                                   "localhost">>)]
      [] database_type = "clickhouse" ->
           [image       |-> "clickhouse/clickhouse-server:latest",
            port        |-> 8123,
            environment |-> {<<"CLICKHOUSE_DB", "appdb">>},
            health_check |-> FallbackHealthCheck(<<"CMD", "curl", "-f",
                                                   "http://localhost:8123/ping">>)]
      [] database_type = "redis" ->
           [image       |-> "redis:7.2-alpine",
            port        |-> 6379,
            environment |-> {},
            health_check |-> FallbackHealthCheck(<<"CMD", "redis-cli", "ping">>)]
      [] OTHER ->
           [image       |-> "pgvector/pgvector:pg16",
            port        |-> 5432,
            environment |-> {<<"POSTGRES_DB", "appdb">>, <<"POSTGRES_USER", "dbuser">>,
                             <<"POSTGRES_PASSWORD", "dbpassword123">>,
                             <<"POSTGRES_INITDB_ARGS", "-c max_connections=200">>},
            health_check |-> FallbackHealthCheck(<<"CMD-SHELL", "pg_isready -U dbuser">>),
            extensions  |-> <<"pgvector">>]

\* _select_database_config(database_type); available: the adapter system was
\* imported and the registry built.  An exception of the adapter path
\* (unsupported type, abstract class) is caught and the hardcoded configs
\* are used.
SelectDatabaseConfig(available, database_type) ==
    LET c   == DatabaseConfig(database_type, "appdb", "localhost", 0, "dbuser",
                              "dbpassword123", FALSE, 10,
                              GetDockerImageForDatabase(database_type), 30)
        key == NormalizeType(database_type)
    IN  IF /\ available
           /\ HasKey(adapters, key)
           /\ ~IsAbstract(Lookup(adapters, key))
        THEN [path   |-> "adapter",
              cls    |-> Lookup(adapters, key),
              config |-> DockerConfig(Lookup(adapters, key),
                                      AdapterInit(Lookup(adapters, key), c))]
        ELSE [path |-> "hardcoded", cls |-> None, config |-> FallbackDbConfig(database_type)]

\* the database types _generate_database_services has a branch for
ServiceTypes == {"postgresql", "mongodb", "mysql", "clickhouse"}

\* the keys _generate_database_services subscripts db_config with, in the
\* order it reads them
ServiceKeys(database_type) ==
    IF database_type \in ServiceTypes
    THEN <<"environment", "image", "port", "health_check">>
    ELSE <<"environment">>

\* _generate_database_services(database_type) on db_config: the KeyError of
\* the first key that is missing, else the services built
GenerateDatabaseServices(database_type, db_config) ==
    LET missing == SelectSeq(ServiceKeys(database_type),
                             LAMBDA k : k \notin DOMAIN db_config)
    IN  IF missing # <<>>
        THEN [status |-> "KeyError", msg |-> missing[1], services |-> {}]
        ELSE [status   |-> "ok",
              msg      |-> "",
              services |-> IF database_type \in ServiceTypes
                           THEN {[name         |-> "primary-" \o database_type,
                                  image        |-> db_config.image,
                                  port         |-> db_config.port,
                                  environment  |-> db_config.environment,
                                  health_check |-> db_config.health_check]}
                           ELSE {}]

\* generate_stack(tech_stack, database_type), as far as the primary database
\* service; the configuration and the adapter it builds are its own
generate_stack(available, database_type) ==
    LET sel == SelectDatabaseConfig(available, database_type)
        gen == GenerateDatabaseServices(database_type, sel.config)
    IN
    /\ ret' = Outcome("generate_stack", database_type, sel.cls, gen.status, gen.msg,
                      [path |-> sel.path, keys |-> DOMAIN sel.config,
                       services |-> gen.services], config)
    /\ UNCHANGED <<adapters, use_llm_fallback, threads, config, instances, validated,
                   registered>>

(***************************************************************************)
(* Concurrent callers of one registry.  No lock is taken anywhere in the   *)
(* class; a caller can be overtaken between any two accesses of _adapters, *)
(* each of which (membership test, item read, item assignment) is one     *)
(* step of the interpreter.                                                *)
(***************************************************************************)
\* a caller between calls; seen is history: every <<key, class>> the
\* registry has held so far
Idle(seen) == [pc |-> "idle", arg |-> "", cls |-> None, had |-> FALSE, seen |-> seen]

\* a caller entered register(db_type, adapter_class)
call_register(t, db_type, adapter_class) ==
    /\ threads[t].pc = "idle"
    /\ threads' = [threads EXCEPT ![t] = [@ EXCEPT !.pc = "register_check",
                                                    !.arg = db_type,
                                                    !.cls = adapter_class]]
    /\ UNCHANGED <<adapters, use_llm_fallback, config, instances, validated, registered,
                   ret>>

\* register: the issubclass test
register_check(t) ==
    LET a == threads[t] IN
    /\ a.pc = "register_check"
    /\ IF ~IsSubclassOfDatabaseAdapter(a.cls)
       THEN /\ ret' = Outcome("register", a.arg, a.cls, "TypeError",
                              NotAnAdapterMessage(a.cls), None, config)
            /\ threads' = [threads EXCEPT ![t] = Idle(a.seen)]
       ELSE /\ threads' = [threads EXCEPT ![t] = [@ EXCEPT !.pc = "register_write"]]
            /\ UNCHANGED ret
    /\ UNCHANGED <<adapters, use_llm_fallback, config, instances, validated, registered>>

\* register_write gone wrong: an existing key is deleted first and assigned
\* in a second step
register_write_delete_first(t) ==
    LET a   == threads[t]
        key == Lower(a.arg)
    IN
    /\ a.pc \in {"register_write", "register_insert"}
    /\ IF a.pc = "register_write" /\ HasKey(adapters, key)
       THEN /\ adapters' = SelectSeq(adapters, LAMBDA e : e.key # key)
            /\ threads' = [threads EXCEPT ![t] = [@ EXCEPT !.pc = "register_insert"]]
            /\ UNCHANGED <<registered, ret>>
       ELSE /\ adapters' = SetItem(adapters, key, a.cls)
            /\ registered' = {r \in registered : r[1] # CanonicalName[a.arg]}
                               \cup {<<CanonicalName[a.arg], a.cls>>}
            /\ ret' = Outcome("register", a.arg, a.cls, "ok", "", None, config)
            /\ threads' = [u \in Callers |->
                              LET seen == threads[u].seen \cup {<<key, a.cls>>} IN
                              IF u = t THEN Idle(seen)
                                       ELSE [threads[u] EXCEPT !.seen = seen]]
    /\ UNCHANGED <<use_llm_fallback, config, instances, validated>>

\* register: the item assignment, and the return
register_write(t) ==
    LET a   == threads[t]
        key == Lower(a.arg)
    IN
    /\ a.pc = "register_write"
    /\ adapters' = SetItem(adapters, key, a.cls)
    /\ registered' = {r \in registered : r[1] # CanonicalName[a.arg]}
                       \cup {<<CanonicalName[a.arg], a.cls>>}
    /\ ret' = Outcome("register", a.arg, a.cls, "ok", "", None, config)
    /\ threads' = [u \in Callers |->
                      LET seen == threads[u].seen \cup {<<key, a.cls>>} IN
                      IF u = t THEN Idle(seen)
                               ELSE [threads[u] EXCEPT !.seen = seen]]
    /\ UNCHANGED <<use_llm_fallback, config, instances, validated>>

\* a caller entered get_adapter(db_type, config); had is history: the key
\* was in the registry when the call began
call_get_adapter(t, db_type) ==
    /\ threads[t].pc = "idle"
    /\ threads' = [threads EXCEPT ![t] =
                      [@ EXCEPT !.pc = "get_adapter_check",
                                !.arg = db_type,
                                !.had = HasKey(adapters, NormalizeType(db_type))]]
    /\ UNCHANGED <<adapters, use_llm_fallback, config, instances, validated, registered,
                   ret>>

\* get_adapter: the membership test, and the raise when it fails
get_adapter_check(t) ==
    LET a       == threads[t]
        db_type == NormalizeType(a.arg)
    IN
    /\ a.pc = "get_adapter_check"
    /\ IF HasKey(adapters, db_type)
       THEN /\ threads' = [threads EXCEPT ![t] = [@ EXCEPT !.pc = "get_adapter_read"]]
            /\ UNCHANGED ret
       ELSE /\ threads' = [threads EXCEPT ![t] = Idle(a.seen)]
            /\ IF use_llm_fallback
               THEN \E e \in HookFailures(db_type) :
                      ret' = Outcome("get_adapter", a.arg, None, "ValueError",
                                     CannotCreateMessage(db_type, e), None, config)
               ELSE ret' = Outcome("get_adapter", a.arg, None, "ValueError",
                                   NotSupportedMessage(db_type), None, config)
    /\ UNCHANGED <<adapters, use_llm_fallback, config, instances, validated, registered>>

\* get_adapter: the item read self._adapters[db_type]
get_adapter_read(t) ==
    LET a       == threads[t]
        db_type == NormalizeType(a.arg)
    IN
    /\ a.pc = "get_adapter_read"
    /\ IF HasKey(adapters, db_type)
       THEN /\ threads' = [threads EXCEPT ![t] =
                             [@ EXCEPT !.pc = "get_adapter_new",
                                       !.cls = Lookup(adapters, db_type)]]
            /\ UNCHANGED ret
       ELSE /\ threads' = [threads EXCEPT ![t] = Idle(a.seen)]
            /\ ret' = Outcome("get_adapter", a.arg, None, "KeyError", db_type, None,
                              config)
    /\ UNCHANGED <<adapters, use_llm_fallback, config, instances, validated, registered>>

\* get_adapter: the constructor call on the class read, and the return
get_adapter_new(t) ==
    LET a == threads[t] IN
    /\ a.pc = "get_adapter_new"
    /\ IF IsAbstract(a.cls)
       THEN /\ ret' = Outcome("get_adapter", a.arg, a.cls, "TypeError",
                              "Can't instantiate abstract class " \o a.cls, None, config)
            /\ UNCHANGED <<config, instances>>
       ELSE /\ Len(instances) < MaxAdapters
            /\ config' = AdapterInit(a.cls, config)
            /\ instances' = Append(instances, [cls |-> a.cls])
            /\ ret' = Outcome("get_adapter", a.arg, a.cls, "ok", "", Len(instances) + 1,
                              config)
    /\ threads' = [threads EXCEPT ![t] = Idle(a.seen)]
    /\ UNCHANGED <<adapters, use_llm_fallback, validated, registered>>

(***************************************************************************)
(* Specifications                                                          *)
(***************************************************************************)
\* DatabaseAdapterRegistry(use_llm_fallback) and a configuration c
Constructed(fallback, c) ==
    /\ adapters = BuiltinAdapters
    /\ use_llm_fallback = fallback
    /\ config = c
    /\ instances = <<>>
    /\ validated = FALSE
    /\ registered = {}
    /\ ret = Outcome("__init__", "", None, "ok", "", None, c)
    /\ threads = [t \in Callers |-> Idle(BuiltinPairs)]

\* Spec: the six built-in engines on a freshly built registry, the adapters
\* built on one configuration, and their methods
Init ==
    \E p \in CorePorts, im \in CoreImages, ssl \in BOOLEAN :
        Constructed(FALSE, DatabaseConfig("PostgreSQL", "demo", "localhost", p, "admin",
                                          "pw", ssl, 10, im, 30))

Next ==
    \/ validate
    \/ \E t \in BuiltinNames : get_adapter(t)
    \/ \E i \in 1..Len(instances) : get_connection_string(i)
    \/ \E i \in 1..Len(instances) : get_docker_config(i)
    \/ \E i \in 1..Len(instances) : supports_vector_search(i)
    \/ \E i \in 1..Len(instances) : get_health_check_command(i)
    \/ \E i \in 1..Len(instances), t \in VectorTables, col \in VectorColumns,
          d \in VectorDimensions : get_vector_create_index_sql(i, t, col, d)

Spec == Init /\ [][Next]_vars

\* SpecRegistry: a registry with or without fallback, under register,
\* get_adapter, get_adapter_info and list_available_adapters
InitRegistry ==
    \E fallback \in BOOLEAN, pi \in {<<0, "">>, <<5433, "postgres:15">>} :
        Constructed(fallback, DatabaseConfig("oracle", "test", "localhost", pi[1], "user",
                                             "pass", FALSE, 10, pi[2], 30))

NextRegistry ==
    \/ \E t \in RegisterNames, cls \in RegisterClasses : register(t, cls)
    \/ \E t \in RegistryTypeNames : get_adapter(t)
    \/ \E t \in RegistryTypeNames : get_adapter_info(t)
    \/ list_available_adapters

SpecRegistry == InitRegistry /\ [][NextRegistry]_vars

\* SpecConfig: configurations constructed with differently spelled engine
\* types, each handed to get_adapter under its own db_type, as
\* ConfigurationEngine.get_database_adapter does
ConfigArgs ==
    [db_type : ConfigDbTypes, db_name : {"test"}, host : {"localhost"}, port : {0, 5432},
     username : {"user"}, password : {"pass"}, ssl_enabled : BOOLEAN, pool_size : {10},
     image : {"", "postgres:15"}, timeout : {30}]

InitConfig ==
    Constructed(FALSE, DatabaseConfig("PostgreSQL", "test", "localhost", 5432, "user",
                                      "pass", FALSE, 10, "postgres:15", 30))

NextConfig ==
    \/ \E args \in ConfigArgs : NewConfig(args)
    \/ get_adapter(config.db_type)
    \/ \E i \in 1..Len(instances) : get_connection_string(i)
    \/ \E i \in 1..Len(instances) : get_docker_config(i)
    \/ \E i \in 1..Len(instances) : get_health_check_command(i)
    \/ \E i \in 1..Len(instances), t \in VectorTables, col \in VectorColumns,
          d \in VectorDimensions : get_vector_create_index_sql(i, t, col, d)

SpecConfig == InitConfig /\ [][NextConfig]_vars

\* SpecList: registrations of new and existing keys in any order, lookups,
\* and listings whose result the caller then changes
ListRegisterNames == {"custom", "oracle", "MYSQL"}
ListRegisterClasses == {PostgreSQLAdapter, MySQLAdapter}
ListLookupNames == {"mysql", "oracle"}

InitList ==
    Constructed(FALSE, DatabaseConfig("oracle", "test", "localhost", 0, "user", "pass",
                                      FALSE, 10, "", 30))

NextList ==
    \/ \E t \in ListRegisterNames, cls \in ListRegisterClasses : register(t, cls)
    \/ \E t \in ListLookupNames : get_adapter(t)
    \/ \E t \in ListLookupNames : get_adapter_info(t)
    \/ list_available_adapters
    \/ append_to_listed("zzz")

SpecList == InitList /\ [][NextList]_vars

\* SpecAdvisory: configurations with and without validation errors, handed to
\* get_adapter whether or not validate() was called on them
AdvisoryPorts     == {5432, 70000}
AdvisoryPoolSizes == {10, 2000}
AdvisoryDbNames   == {"demo", ""}
AdvisoryImages    == {"postgres:15", ""}
AdvisoryTypes     == {"postgresql", "redis"}

InitAdvisory ==
    \E p \in AdvisoryPorts, ps \in AdvisoryPoolSizes, n \in AdvisoryDbNames,
       im \in AdvisoryImages :
        Constructed(FALSE, DatabaseConfig("postgresql", n, "localhost", p, "admin", "pw",
                                          FALSE, ps, im, 30))

NextAdvisory ==
    \/ validate
    \/ \E t \in AdvisoryTypes : get_adapter(t)
    \/ \E i \in 1..Len(instances) : get_connection_string(i)

SpecAdvisory == InitAdvisory /\ [][NextAdvisory]_vars

\* SpecConcurrent: two callers whose register and get_adapter calls on one
\* registry interleave step by step
InitConcurrent ==
    Constructed(FALSE, DatabaseConfig("custom", "test", "localhost", 0, "user", "pass",
                                      FALSE, 10, "", 30))

NextConcurrent ==
    \E t \in Callers :
        \/ \E n \in ConcurrentRegisterNames, cls \in ConcurrentRegisterClasses :
              call_register(t, n, cls)
        \/ register_check(t)
        \/ register_write(t)
        \/ \E n \in ConcurrentLookupNames : call_get_adapter(t, n)
        \/ get_adapter_check(t)
        \/ get_adapter_read(t)
        \/ get_adapter_new(t)

SpecConcurrent == InitConcurrent /\ [][NextConcurrent]_vars

\* SpecStack: generate_stack with and without the adapter system, on a
\* registry that may have been given other adapters
StackTypes == BuiltinNames \cup {"oracle"}

InitStack ==
    Constructed(FALSE, DatabaseConfig("postgresql", "appdb", "localhost", 0, "dbuser",
                                      "dbpassword123", FALSE, 10, "", 30))

NextStack ==
    \/ \E available \in BOOLEAN, t \in StackTypes : generate_stack(available, t)
    \/ \E t \in RegisterNames, cls \in RegisterClasses : register(t, cls)

SpecStack == InitStack /\ [][NextStack]_vars

\* SpecValidate: validate() applied to configurations over the whole grid of
\* in-range, boundary and out-of-range field values
InitValidate ==
    \E t \in {"", "PostgreSQL"}, n \in ValidateStrings, h \in ValidateStrings,
       p \in ValidatePorts, u \in ValidateStrings, ps \in ValidatePoolSizes,
       im \in ValidateStrings, to \in ValidateTimeouts :
        Constructed(FALSE, DatabaseConfig(t, n, h, p, u, "pw", FALSE, ps, im, to))

NextValidate == validate

SpecValidate == InitValidate /\ [][NextValidate]_vars

(***************************************************************************)
(* Properties                                                              *)
(***************************************************************************)
\* the documented default port and image of each built-in engine
CanonicalPort ==
    [t \in BuiltinNames |->
        CASE t = "postgresql"    -> 5432
          [] t = "mongodb"       -> 27017
          [] t = "mysql"         -> 3306
          [] t = "clickhouse"    -> 8123
          [] t = "redis"         -> 6379
          [] t = "elasticsearch" -> 9200]

CanonicalImage ==
    [t \in BuiltinNames |->
        CASE t = "postgresql"    -> "pgvector/pgvector:pg16"
          [] t = "mongodb"       -> "mongo:7.0"
          [] t = "mysql"         -> "mysql:8.0"
          [] t = "clickhouse"    -> "clickhouse/clickhouse-server:latest"
          [] t = "redis"         -> "redis:7.2-alpine"
          [] t = "elasticsearch" -> "docker.elastic.co/elasticsearch/elasticsearch:8.0.0"]

\* the adapter object the last get_adapter returned
Returned == instances[ret.value]

\* C1: get_adapter for a built-in engine type with config.port == 0 succeeds,
\* leaves config.port at that engine's canonical default port, and the
\* returned adapter's connection string has ":<that port>" in it.
C1_DefaultPort ==
    \A t \in BuiltinNames :
        (ret.op = "get_adapter" /\ ret.db_type = t /\ ret.before.port = 0) =>
            /\ ret.status = "ok"
            /\ config.port = CanonicalPort[t]
            /\ Contains(ConnectionString(Returned.cls, config),
                        ":" \o Str(CanonicalPort[t]))

\* a redis adapter was built on a configuration whose port was 0
C1_Witness ==
    /\ ret.op = "get_adapter" /\ ret.db_type = "redis" /\ ret.status = "ok"
    /\ ret.before.port = 0
    /\ config.port = 6379
    /\ ConnectionString(Returned.cls, config) = "redis://:pw@localhost:6379/0"

\* C2: get_adapter for a built-in engine type with an empty config.image
\* leaves config.image at that engine's canonical default image, and the
\* image of the returned adapter's docker config is that image.
C2_DefaultImage ==
    \A t \in BuiltinNames :
        (ret.op = "get_adapter" /\ ret.db_type = t /\ ret.before.image = "") =>
            /\ ret.status = "ok"
            /\ config.image = CanonicalImage[t]
            /\ DockerConfig(Returned.cls, config).image = CanonicalImage[t]

\* an elasticsearch adapter was built on a configuration without image
C2_Witness ==
    /\ ret.op = "get_adapter" /\ ret.db_type = "elasticsearch" /\ ret.status = "ok"
    /\ ret.before.image = ""
    /\ DockerConfig(Returned.cls, config).image
         = "docker.elastic.co/elasticsearch/elasticsearch:8.0.0"

\* the invariants of a configuration, in the order validate() reports them,
\* each with the word its error message carries
FieldOrder == <<"port", "pool", "timeout", "db_type", "db_name", "host", "username",
                "image">>

\* the invariant named f is violated by configuration c
Violates(c, f) ==
    CASE f = "port"     -> c.port < 0 \/ c.port > 65535
      [] f = "pool"     -> c.pool_size < 1 \/ c.pool_size > 1000
      [] f = "timeout"  -> c.timeout < 1 \/ c.timeout > 300
      [] f = "db_type"  -> c.db_type = ""
      [] f = "db_name"  -> c.db_name = ""
      [] f = "host"     -> c.host = ""
      [] f = "username" -> c.username = ""
      [] f = "image"    -> c.image = ""

\* the violated invariants of c, in the fixed order
Violated(c) == SelectSeq(FieldOrder, LAMBDA f : Violates(c, f))

\* C3: validate() returns ok = TRUE exactly when no invariant is violated;
\* its error list has one entry per violated invariant, in the fixed order,
\* the k-th entry carrying the name of the k-th violated invariant.
C3_ValidateReportsAll ==
    ret.op = "validate" =>
        /\ ret.status = "ok"
        /\ ret.value.ok <=> (Violated(config) = <<>>)
        /\ Len(ret.value.errors) = Len(Violated(config))
        /\ \A k \in 1..Len(Violated(config)) :
               Contains(Lower(ret.value.errors[k]), Violated(config)[k])

\* validate() reported several violations of one configuration at once
C3_Witness ==
    /\ ret.op = "validate"
    /\ config.port = 70000 /\ config.pool_size = 2000 /\ config.timeout = 500
    /\ config.image = "" /\ config.db_name = "x"
    /\ ~ret.value.ok
    /\ Len(ret.value.errors) = 4

\* C4: once validate() has been called on a configuration, no later
\* operation changes any of its fields.
C4_ImmutableAfterValidate == [][validated => config' = config]_vars

\* C4, amended: once validate() has been called, a later operation changes
\* nothing but port and image, port only when it was 0 and image only when
\* it was empty (the defaulting of adapter construction).
C4_OnlyDefaultingAfterValidate ==
    [][validated =>
         /\ config' = [config EXCEPT !.port = config'.port, !.image = config'.image]
         /\ config.port # 0 => config'.port = config.port
         /\ config.image # "" => config'.image = config.image]_vars

\* a configuration that passed validate() with port 0 had its port set by a
\* later get_adapter
C4_Witness ==
    /\ validated
    /\ ret.op = "get_adapter" /\ ret.status = "ok"
    /\ Validate(ret.before).ok
    /\ ret.before.port = 0
    /\ config.port # 0

\* the engine type is one get_adapter can serve: a built-in, or one a
\* register call was accepted for
IsRegisteredType(t) ==
    \/ CanonicalName[t] \in BuiltinNames
    \/ \E r \in registered : r[1] = CanonicalName[t]

\* C5: on a registry without fallback, get_adapter for a type that is not
\* registered raises ValueError with the type (in lowercase) in its message,
\* returns no adapter, and leaves the registry, the configuration and the
\* adapters built so far as they were.
C5_UnsupportedWithoutFallback ==
    [][(ret'.op = "get_adapter" /\ ~use_llm_fallback /\ ~IsRegisteredType(ret'.db_type)) =>
         /\ ret'.status = "ValueError"
         /\ Contains(ret'.msg, "'" \o CanonicalName[ret'.db_type] \o "'")
         /\ ret'.value = None
         /\ adapters' = adapters
         /\ config' = config
         /\ instances' = instances]_vars

\* get_adapter("oracle") failed on a registry without fallback, the
\* configuration still without port and image
C5_Witness ==
    /\ ~use_llm_fallback
    /\ ret.op = "get_adapter" /\ ret.db_type = "oracle" /\ ret.status = "ValueError"
    /\ ret.msg = "Database type 'oracle' not supported"
    /\ ret.before.port = 0 /\ config.port = 0 /\ config.image = ""

\* s ends with suffix
EndsWith(s, suffix) ==
    Len(suffix) <= Len(s) /\ SubSeq(s, Len(s) - Len(suffix) + 1, Len(s)) = suffix

\* C6: on a registry with fallback, get_adapter for a type that is not
\* registered raises ValueError whose message names the type and ends with
\* the reason the hook failed for; no adapter is returned and the registry
\* is left as it was.
C6_FallbackHookFails ==
    [][(ret'.op = "get_adapter" /\ use_llm_fallback /\ ~IsRegisteredType(ret'.db_type)) =>
         /\ ret'.status = "ValueError"
         /\ Contains(ret'.msg, " " \o CanonicalName[ret'.db_type] \o ": ")
         /\ \E e \in HookFailures(CanonicalName[ret'.db_type]) :
                EndsWith(ret'.msg, ": " \o e)
         /\ ret'.value = None
         /\ adapters' = adapters
         /\ instances' = instances]_vars

\* get_adapter("oracle") failed in the hook of a registry with fallback
C6_Witness ==
    /\ use_llm_fallback
    /\ ret.op = "get_adapter" /\ ret.db_type = "oracle" /\ ret.status = "ValueError"
    /\ ret.msg = "Cannot create adapter for oracle: No module named 'yaml'"
    /\ ~HasKey(adapters, "oracle")

\* C7: after register(k, C) was accepted, a get_adapter for any spelling of k
\* returns an adapter built by the C of the last such register.
C7_RegisteredConstructorBuilds ==
    \A r \in registered :
        (ret.op = "get_adapter" /\ CanonicalName[ret.db_type] = r[1]) =>
            /\ ret.status = "ok"
            /\ Returned.cls = r[2]

FiveOperations ==
    {"get_connection_string", "get_docker_config", "supports_vector_search",
     "get_vector_create_index_sql", "get_health_check_command"}

\* C9: for every class register accepted, a later get_adapter for that key
\* succeeds and returns an object that implements the five operations.
C9_AcceptedConstructorsConform ==
    (ret.op = "get_adapter" /\ \E r \in registered : r[1] = CanonicalName[ret.db_type]) =>
        /\ ret.status = "ok"
        /\ FiveOperations \subseteq ImplementedMethods(Returned.cls)

\* the class serving type t: the last one registered for it, else the built-in
ServingClass(t) ==
    IF \E r \in registered : r[1] = CanonicalName[t]
    THEN (CHOOSE r \in registered : r[1] = CanonicalName[t])[2]
    ELSE Lookup(BuiltinAdapters, CanonicalName[t])

\* C10: get_adapter with any spelling of a registered type selects the class
\* serving the lowercase name, whatever spelling the type was registered with.
C10_LookupCaseInsensitive ==
    (ret.op = "get_adapter" /\ IsRegisteredType(ret.db_type)) =>
        /\ ret.cls = ServingClass(ret.db_type)
        /\ ret.status = "ok" => Returned.cls = ServingClass(ret.db_type)

\* get_adapter("MySql") returned the class that register("MYSQL", ...) stored
C10_Witness ==
    /\ ret.op = "get_adapter" /\ ret.db_type = "MySql" /\ ret.status = "ok"
    /\ <<"mysql", PostgreSQLAdapter>> \in registered
    /\ Returned.cls = PostgreSQLAdapter

\* everything an adapter built by get_adapter(c.db_type, c) reports
AdapterBehaviour(c) ==
    LET cls == Lookup(adapters, NormalizeType(c.db_type))
        d   == AdapterInit(cls, c)
    IN  [cls               |-> cls,
         connection_string |-> ConnectionString(cls, d),
         docker_config     |-> DockerConfig(cls, d),
         vector_sql        |-> VectorCreateIndexSql(cls, "docs", "embedding", 768),
         health_check      |-> HealthCheckCommand(cls, d)]

\* the configuration built from the arguments config was built from, with t
\* as its engine type
ConfigWithType(t) ==
    DatabaseConfig(t, config.db_name, config.host, config.port, config.username,
                   config.password, config.ssl_enabled, config.pool_size, config.image,
                   config.timeout)

\* C11: the constructor stores its arguments unchanged except db_type, which
\* it stores in lowercase; building again from the stored values changes
\* nothing; and configurations that differ only in the spelling of the
\* engine type have the same db_type and give adapters of the same class
\* with the same connection string, docker config, vector SQL and health
\* check.
C11_TypeNormalization ==
    /\ ret.op = "DatabaseConfig" =>
           /\ config = [ret.value EXCEPT !.db_type = CanonicalName[ret.db_type]]
           /\ ConfigWithType(config.db_type) = config
    /\ \A t1, t2 \in ConfigDbTypes :
           CanonicalName[t1] = CanonicalName[t2] =>
               /\ ConfigWithType(t1).db_type = ConfigWithType(t2).db_type
               /\ AdapterBehaviour(ConfigWithType(t1)) = AdapterBehaviour(ConfigWithType(t2))

\* a configuration was constructed with "PostgreSQL" and holds "postgresql"
C11_Witness ==
    /\ ret.op = "DatabaseConfig" /\ ret.db_type = "PostgreSQL"
    /\ config.db_type = "postgresql"
    /\ config.port = 0 /\ config.image = ""

\* the keys of a freshly built registry, in the order __init__ writes them
FreshKeys == <<"postgresql", "mongodb", "mysql", "clickhouse", "redis", "elasticsearch">>

\* the elements of a sequence
Range(q) == {q[i] : i \in 1..Len(q)}

\* C12: list_available_adapters returns the registered keys in insertion
\* order, the six built-ins first and in the order of __init__; a successful
\* register of a new key appends it, every other step (re-registration, a
\* refused register, get_adapter, get_adapter_info, listing, changing a
\* returned list) leaves the order of the keys as it was.
C12_ListInsertionOrder ==
    [][/\ Keys(adapters') =
            IF /\ ret'.op = "register" /\ ret'.status = "ok"
               /\ CanonicalName[ret'.db_type] \notin Range(Keys(adapters))
            THEN Append(Keys(adapters), CanonicalName[ret'.db_type])
            ELSE Keys(adapters)
       /\ ret'.op = "list_available_adapters" =>
            /\ ret'.value = Keys(adapters')
            /\ SubSeq(ret'.value, 1, 6) = FreshKeys
       /\ ret'.op = "list.append" => adapters' = adapters
      ]_vars

\* oracle, then custom were registered, mysql was re-registered with
\* another class, and the listing shows the new keys last, in that order
C12_Witness ==
    /\ ret.op = "list_available_adapters"
    /\ ret.value = FreshKeys \o <<"oracle", "custom">>
    /\ <<"mysql", PostgreSQLAdapter>> \in registered

\* C13: in every state of a registry the six built-in keys are registered,
\* and no step (register, get_adapter, get_adapter_info or
\* list_available_adapters, successful or failing) removes a key.
C13_KeysNeverShrink ==
    /\ [](Range(FreshKeys) \subseteq Range(Keys(adapters)))
    /\ [][Range(Keys(adapters)) \subseteq Range(Keys(adapters'))]_vars

\* a key was added, a built-in was overwritten, and the last call, a
\* register, was refused: all seven keys are there
C13_Witness ==
    /\ ret.op = "register" /\ ret.status = "TypeError"
    /\ <<"custom", DatabaseAdapter>> \in registered
    /\ <<"mysql", PostgreSQLAdapter>> \in registered
    /\ Range(Keys(adapters)) = Range(FreshKeys) \cup {"custom"}

\* C14: get_adapter_info with any spelling of a registered type returns the
\* lowercase type and the name of the class now serving it; with an
\* unregistered type it raises ValueError with the type in the message and
\* changes nothing.
C14_AdapterInfo ==
    [][ret'.op = "get_adapter_info" =>
         LET t == ret'.db_type IN
         IF IsRegisteredType(t)
         THEN /\ ret'.status = "ok"
              /\ ret'.value = [db_type |-> CanonicalName[t], class_name |-> ServingClass(t)]
         ELSE /\ ret'.status = "ValueError"
              /\ Contains(ret'.msg, "'" \o CanonicalName[t] \o "'")
              /\ UNCHANGED <<adapters, use_llm_fallback, config, instances, validated,
                             registered>>
      ]_vars

\* get_adapter_info("MySql") names the class that register("MYSQL", ...) stored
C14_Witness ==
    /\ ret.op = "get_adapter_info" /\ ret.db_type = "MySql" /\ ret.status = "ok"
    /\ <<"mysql", PostgreSQLAdapter>> \in registered
    /\ ret.value = [db_type |-> "mysql", class_name |-> PostgreSQLAdapter]

\* get_adapter_info("Custom") found nothing under custom
C14_WitnessNotFound ==
    /\ ret.op = "get_adapter_info" /\ ret.db_type = "Custom"
    /\ ret.status = "ValueError" /\ ret.msg = "Adapter 'custom' not found"

\* " ".join(q)
RECURSIVE Join(_)
Join(q) ==
    IF q = <<>> THEN ""
    ELSE IF Len(q) = 1 THEN q[1]
    ELSE q[1] \o " " \o Join(Tail(q))

\* the command of a docker healthcheck test: the CMD / CMD-SHELL marker
\* dropped, the arguments joined by single spaces
TestCommand(test) == Join(Tail(test))

\* C15: what get_health_check_command returns is the command of the
\* healthcheck test of the same adapter's get_docker_config.
C15_HealthCheckMatchesDescriptor ==
    ret.op = "get_health_check_command" =>
        /\ DockerConfig(ret.cls, config).healthcheck.test[1] \in {"CMD", "CMD-SHELL"}
        /\ ret.value = TestCommand(DockerConfig(ret.cls, config).healthcheck.test)

\* C16: the connection string contains the host, the port, the password and
\* the database name of the configuration, and another database name alone,
\* or another user name alone, gives another connection string.
C16_ConnectionStringUsesAllFields ==
    ret.op = "get_connection_string" =>
        /\ Contains(ret.value, config.host)
        /\ Contains(ret.value, Str(config.port))
        /\ Contains(ret.value, config.password)
        /\ Contains(ret.value, config.db_name)
        /\ ConnectionString(ret.cls, [config EXCEPT !.db_name = "other"]) # ret.value
        /\ ConnectionString(ret.cls, [config EXCEPT !.username = "other"]) # ret.value

\* C17: the connection string carries ssl_enabled in the engine's encoding
\* (sslmode=require/disable for PostgreSQL, useSSL=true/false for MySQL, the
\* https/http scheme for Elasticsearch), and for every engine the strings
\* for ssl_enabled true and false differ when nothing else does.
C17_ConnectionStringEncodesSsl ==
    ret.op = "get_connection_string" =>
        /\ ret.cls = PostgreSQLAdapter =>
             Contains(ret.value, IF config.ssl_enabled THEN "sslmode=require"
                                                       ELSE "sslmode=disable")
        /\ ret.cls = MySQLAdapter =>
             Contains(ret.value, IF config.ssl_enabled THEN "useSSL=true"
                                                       ELSE "useSSL=false")
        /\ ret.cls = ElasticsearchAdapter =>
             IF config.ssl_enabled THEN SubSeq(ret.value, 1, 8) = "https://"
                                   ELSE SubSeq(ret.value, 1, 7) = "http://"
        /\ ConnectionString(ret.cls, [config EXCEPT !.ssl_enabled = ~config.ssl_enabled])
               # ret.value

\* C18: get_adapter for a registered type builds and returns the adapter
\* also when the configuration has validation errors (port 70000, pool size
\* 2000, empty db_name), and it does not call validate().
C18_ValidationNotEnforced ==
    [][(ret'.op = "get_adapter" /\ IsRegisteredType(ret'.db_type)
            /\ Violated(config) # <<>>) =>
         /\ ret'.status = "ok"
         /\ Len(instances') = Len(instances) + 1
         /\ instances'[ret'.value].cls = ServingClass(ret'.db_type)
         /\ validated' = validated
      ]_vars

\* an adapter was built on a configuration with port 70000, pool size 2000
\* and an empty db_name, which nobody had validated
C18_Witness ==
    /\ ret.op = "get_adapter" /\ ret.status = "ok"
    /\ ret.before.port = 70000 /\ ret.before.pool_size = 2000 /\ ret.before.db_name = ""
    /\ ~validated
    /\ Returned.cls = RedisAdapter

\* C19: validate() changes no field of the configuration and nothing of the
\* registry, its result is the one the configuration's fields determine, and
\* a call made right after another returns the same result.
C19_ValidateNoSideEffects ==
    [][ret'.op = "validate" =>
         /\ UNCHANGED <<adapters, use_llm_fallback, config, instances, registered>>
         /\ ret'.value.ok = (Violated(config') = <<>>)
         /\ ret.op = "validate" => ret'.value = ret.value
      ]_vars

\* validate() reported errors on a configuration adapters were already built
\* on, and configuration and adapters are as before the call
C19_Witness ==
    /\ ret.op = "validate" /\ ~ret.value.ok
    /\ Len(ret.value.errors) = 3
    /\ config = ret.before
    /\ Len(instances) = 2

\* C20: every successful get_adapter builds a new adapter object, also for
\* a type and a configuration it was called with before; the objects built
\* earlier stay as they are, and each object answers from the configuration
\* it was built on, as that configuration is now.
C20_NoPooling ==
    [][/\ (ret'.op = "get_adapter" /\ ret'.status = "ok") =>
            /\ Len(instances') = Len(instances) + 1
            /\ SubSeq(instances', 1, Len(instances)) = instances
            /\ ret'.value = Len(instances')
            /\ instances'[ret'.value].cls = ret'.cls
       /\ ret'.op = "get_connection_string" =>
            ret'.value = ConnectionString(ret'.cls, config')
      ]_vars

\* two get_adapter calls with the same type on the same configuration gave
\* two objects
C20_Witness ==
    /\ ret.op = "get_adapter" /\ ret.status = "ok" /\ ret.value = 2
    /\ ret.db_type = "redis"
    /\ instances = << [cls |-> RedisAdapter], [cls |-> RedisAdapter] >>

\* C21: a PostgreSQL adapter supports vector search, and its vector SQL has
\* a CREATE TABLE of the given table with a column "<column> vector(<dimension>)"
\* and a CREATE INDEX on that table over the column with cosine distance.
C21_PostgreSQLVectorSql ==
    ret.cls = PostgreSQLAdapter =>
        /\ ret.op = "supports_vector_search" => ret.value = TRUE
        /\ ret.op = "get_vector_create_index_sql" =>
             LET a == ret.value IN
             /\ Contains(a.sql, "CREATE TABLE IF NOT EXISTS " \o a.table_name \o " (")
             /\ Contains(a.sql, a.column_name \o " vector(" \o ToString(a.dimension) \o ")")
             /\ Contains(a.sql, "CREATE INDEX ON " \o a.table_name \o " ")
             /\ Contains(a.sql, "(" \o a.column_name \o " vector_cosine_ops)")

\* a PostgreSQL adapter returned the SQL for docs / embedding / 768
C21_Witness ==
    /\ ret.op = "get_vector_create_index_sql" /\ ret.cls = PostgreSQLAdapter
    /\ ret.value.table_name = "docs" /\ ret.value.column_name = "embedding"
    /\ ret.value.dimension = 768
    /\ Contains(ret.value.sql, "embedding vector(768)")

\* C22: with register and get_adapter calls of several callers interleaved,
\* a get_adapter for a key that was registered when the call began does not
\* fail (not as unsupported, not on the item read), the adapter it returns
\* is of a class the registry has held for that key at some time up to the
\* return, and whenever no call is in progress every key serves the class
\* of the last register applied to it.
C22_ConcurrentLookups ==
    [][/\ \A t \in Callers :
            LET a == threads[t]
                b == threads'[t]
            IN  /\ (a.pc \in {"get_adapter_check", "get_adapter_read"} /\ b.pc = "idle") =>
                       ~a.had
                /\ (a.pc = "get_adapter_new" /\ b.pc = "idle") =>
                       /\ ret'.status = "ok"
                       /\ <<CanonicalName[a.arg], instances'[ret'.value].cls>> \in b.seen
       /\ (\A t \in Callers : threads'[t].pc = "idle") =>
             \A r \in registered' : Lookup(adapters', r[1]) = r[2]
      ]_vars

\* one caller's get_adapter("custom") began when custom served MySQLAdapter,
\* the other caller's register overwrote the key while it ran, and the call
\* returned an adapter of the overwriting class
C22_Witness ==
    /\ ret.op = "get_adapter" /\ ret.status = "ok" /\ ret.cls = PostgreSQLAdapter
    /\ \A t \in Callers : threads[t].pc = "idle"
    /\ \A t \in Callers : <<"custom", MySQLAdapter>> \in threads[t].seen
    /\ registered = {<<"custom", PostgreSQLAdapter>>}
    /\ Len(instances) = 1

\* the five methods of an adapter object
AdapterMethods ==
    {"get_connection_string", "get_docker_config", "supports_vector_search",
     "get_vector_create_index_sql", "get_health_check_command"}

\* C23: once an adapter has been built on a configuration, nothing changes
\* that configuration any more; an adapter method returns without raising,
\* leaves the configuration and the adapters as they are, and a call that
\* repeats the previous one (same method, same class, same arguments)
\* returns an equal result.
C23_MethodsArePure ==
    [][/\ Len(instances) >= 1 => config' = config
       /\ ret'.op \in AdapterMethods =>
            /\ ret'.status = "ok"
            /\ config' = config /\ instances' = instances /\ adapters' = adapters
            /\ ret'.before = config
            /\ (ret.op = ret'.op /\ ret.cls = ret'.cls) =>
                 IF ret'.op = "get_vector_create_index_sql"
                 THEN (/\ ret.value.table_name = ret'.value.table_name
                       /\ ret.value.column_name = ret'.value.column_name
                       /\ ret.value.dimension = ret'.value.dimension)
                          => ret'.value.sql = ret.value.sql
                 ELSE ret'.value = ret.value
      ]_vars

\* the constructor of the first adapter set port and image, a second adapter
\* was built, and a method answered on the configuration as the first
\* constructor left it
C23_Witness ==
    /\ ret.op = "get_docker_config" /\ ret.cls = MongoDBAdapter
    /\ instances = << [cls |-> RedisAdapter], [cls |-> MongoDBAdapter] >>
    /\ config.port = 6379 /\ config.image = "redis:7.2-alpine"
    /\ ret.before = config

\* C24: the vector SQL of every engine names the given table, column and
\* dimension, and another dimension alone gives another text.
C24_VectorSqlUsesDimension ==
    ret.op = "get_vector_create_index_sql" =>
        LET a == ret.value IN
        /\ Contains(a.sql, a.table_name)
        /\ Contains(a.sql, a.column_name)
        /\ Contains(a.sql, ToString(a.dimension))
        /\ \A d \in VectorDimensions \ {a.dimension} :
             VectorCreateIndexSql(ret.cls, a.table_name, a.column_name, d) # a.sql

\* the port each engine listens on inside its container
ContainerPort(cls) ==
    CASE cls = PostgreSQLAdapter    -> "5432"
      [] cls = MongoDBAdapter       -> "27017"
      [] cls = MySQLAdapter         -> "3306"
      [] cls = ClickHouseAdapter    -> "8123"
      [] cls = RedisAdapter         -> "6379"
      [] cls = ElasticsearchAdapter -> "9200"

\* C25: the docker config of every engine publishes the configuration's
\* port, as it is after defaulting, mapped to the engine's container port.
C25_DockerPublishesConfiguredPort ==
    ret.op = "get_docker_config" =>
        \E k \in 1..Len(ret.value.ports) :
            ret.value.ports[k] = ToString(config.port) \o ":" \o ContainerPort(ret.cls)

C27_DefaultingOnlyWhenUnset ==
    [][ret'.op = "get_adapter" =>
         /\ config.port # 0 => config'.port = config.port
         /\ config.image # "" => config'.image = config.image
         /\ [config' EXCEPT !.port = config.port, !.image = config.image] = config
      ]_vars

\* a ClickHouse adapter was built on port 5433 and image postgres:15, and
\* both are still there
C27_Witness ==
    /\ ret.op = "get_adapter" /\ ret.status = "ok" /\ Returned.cls = ClickHouseAdapter
    /\ ret.before.port = 5433 /\ ret.before.image = "postgres:15"
    /\ config = ret.before

\* C28: the first get_adapter on a configuration with port 0 and no image
\* sets the defaults of its engine; a later get_adapter for another engine
\* on the same configuration leaves port and image at those values, and
\* every adapter built on the configuration reports them.
C28_FirstEngineDecidesDefaults ==
    [][(ret'.op = "get_adapter" /\ ret'.status = "ok") =>
         /\ (Len(instances) = 0 /\ config.port = 0 /\ config.image = "") =>
              /\ config'.port = CanonicalPort[ret'.db_type]
              /\ config'.image = CanonicalImage[ret'.db_type]
         /\ (Len(instances) >= 1 /\ instances[1].cls # ret'.cls) =>
              /\ config'.port = config.port
              /\ config'.image = config.image
              /\ \A i \in 1..Len(instances') :
                   /\ Contains(ConnectionString(instances'[i].cls, config'),
                               ":" \o ToString(config.port))
                   /\ DockerConfig(instances'[i].cls, config').image = config.image
      ]_vars

\* the configuration had port 0 and no image, a Redis adapter was built on
\* it, then a PostgreSQL adapter, and it holds the Redis defaults
C28_Witness ==
    /\ ret.op = "get_adapter" /\ ret.status = "ok" /\ ret.db_type = "postgresql"
    /\ instances = << [cls |-> RedisAdapter], [cls |-> PostgreSQLAdapter] >>
    /\ config.port = 6379 /\ config.image = "redis:7.2-alpine"
    /\ ConnectionString(PostgreSQLAdapter, config)
         = "postgresql://admin:pw@localhost:6379/demo?sslmode=disable"

\* C29: every key of the registry is spelled in lowercase, and no two keys
\* differ only in letter case: register with "Custom" and with "custom"
\* write one entry.
C29_KeysLowercase ==
    /\ \A i \in 1..Len(adapters) :
         /\ adapters[i].key \in DOMAIN CanonicalName
         /\ CanonicalName[adapters[i].key] = adapters[i].key
    /\ \A i, j \in 1..Len(adapters) :
         CanonicalName[adapters[i].key] = CanonicalName[adapters[j].key] => i = j

\* register("Custom", ...) succeeded and the registry has the one key custom
C29_Witness ==
    /\ ret.op = "register" /\ ret.db_type = "Custom" /\ ret.status = "ok"
    /\ Keys(adapters) = FreshKeys \o <<"custom">>

\* C30: for postgresql, mongodb, mysql and clickhouse, on the adapter path
\* and on the hardcoded path, the config _select_database_config returns has
\* the keys image, port, environment and health_check, and generate_stack
\* builds the service primary-<type> without a KeyError.
C30_StackDescriptorKeys ==
    (ret.op = "generate_stack" /\ ret.db_type \in ServiceTypes) =>
        /\ {"image", "port", "environment", "health_check"} \subseteq ret.value.keys
        /\ ret.status = "ok"
        /\ \E sv \in ret.value.services : sv.name = "primary-" \o ret.db_type

====
